---- MODULE Spec2Model ----
(***************************************************************************)
(* Model of src/date_util.rs (crate cliff3_util): the four calendar        *)
(* helpers local_datetime_to_utc, utc_datetime_to_local, get_latest_day    *)
(* and get_week_start_end, together with the parts of chrono and chrono-tz *)
(* they call (pattern parsing, calendar arithmetic, offset lookups).       *)
(*                                                                         *)
(* A NaiveDateTime is the record [y, m, d, secs] (calendar date and the    *)
(* second of the day); a DateTime<Utc> is the same record read as UTC; a   *)
(* DateTime<T> with a fixed offset is [local, off].  Texts and patterns    *)
(* are sequences of one-character strings and of pattern items.            *)
(***************************************************************************)
EXTENDS Integers, Sequences, FiniteSets, TLC

VARIABLES
    pc,       \* "ready": no call made yet; "returned"; "aborted": a call panicked
    call,     \* the arguments of the last call
    ret,      \* what the last call returned
    chained,  \* the call whose result was written out as the last call's text
    stdout,   \* the lines written to the standard output so far
    depth     \* how many calls were fed with the result of the call before

vars == <<pc, call, ret, chained, stdout, depth>>

-----------------------------------------------------------------------------
(* Bounds of the model.                                                    *)

\* How many times the result of a conversion is written out and converted
\* back in one behaviour.
MaxChain == 2

\* The last calendar year the date inputs of get_latest_day and
\* get_week_start_end are drawn from; the first is 2023, 2024 is a leap year.
MaxYear == 2025

-----------------------------------------------------------------------------
(* Proleptic Gregorian calendar arithmetic (chrono::NaiveDate).  chrono's   *)
(* dates span the years -262143..262142; every date of the model lies far  *)
(* inside, so the checked_* operations return Some and their unwrap()      *)
(* never panics.                                                           *)

IsLeapYear(y) == (y % 4 = 0) /\ ((y % 100 # 0) \/ (y % 400 = 0))

DaysInMonth(y, m) ==
    IF m = 2 THEN (IF IsLeapYear(y) THEN 29 ELSE 28)
    ELSE IF m \in {4, 6, 9, 11} THEN 30 ELSE 31

\* NaiveDate::from_ymd_opt(y, m, d).is_some()
ValidDate(y, m, d) == m \in 1..12 /\ d >= 1 /\ d <= DaysInMonth(y, m)

\* Days from 1970-01-01 to y-m-d (NaiveDate's day count, epoch-based).
DaysFromCivil(y, m, d) ==
    LET yy  == IF m <= 2 THEN y - 1 ELSE y
        era == yy \div 400
        yoe == yy - era * 400
        mp  == IF m > 2 THEN m - 3 ELSE m + 9
        doy == (153 * mp + 2) \div 5 + d - 1
        doe == yoe * 365 + yoe \div 4 - yoe \div 100 + doy
    IN  era * 146097 + doe - 719468

\* The calendar date of a day count.
CivilFromDays(z) ==
    LET zz  == z + 719468
        era == zz \div 146097
        doe == zz - era * 146097
        yoe == (doe - doe \div 1460 + doe \div 36524 - doe \div 146096) \div 365
        doy == doe - (365 * yoe + yoe \div 4 - yoe \div 100)
        mp  == (5 * doy + 2) \div 153
        dd  == doy - (153 * mp + 2) \div 5 + 1
        mm  == IF mp < 10 THEN mp + 3 ELSE mp - 9
        yy  == yoe + era * 400 + (IF mm <= 2 THEN 1 ELSE 0)
    IN  [y |-> yy, m |-> mm, d |-> dd]

\* NaiveDateTime::new(NaiveDate::from_ymd(y, m, d), NaiveTime::from_hms(H, M, S))
NaiveDateTime(y, m, d, H, M, S) ==
    [y |-> y, m |-> m, d |-> d, secs |-> H * 3600 + M * 60 + S]

\* NaiveDateTime::and_utc().timestamp(): seconds since 1970-01-01T00:00:00.
Timestamp(dt) == DaysFromCivil(dt.y, dt.m, dt.d) * 86400 + dt.secs

\* DateTime::from_timestamp(ts, 0).naive_utc()
FromTimestamp(ts) ==
    LET c == CivilFromDays(ts \div 86400)
    IN  [y |-> c.y, m |-> c.m, d |-> c.d, secs |-> ts % 86400]

\* Datelike::weekday().days_since(Weekday::Mon): Monday = 0 ... Sunday = 6.
\* 1970-01-01 was a Thursday.
DaysSinceMonday(dt) == (DaysFromCivil(dt.y, dt.m, dt.d) + 3) % 7

\* NaiveDateTime::checked_sub_days(Days::new(n)).unwrap(): the date moves,
\* the time of day stays.
CheckedSubDays(dt, n) ==
    LET c == CivilFromDays(DaysFromCivil(dt.y, dt.m, dt.d) - n)
    IN  [y |-> c.y, m |-> c.m, d |-> c.d, secs |-> dt.secs]

\* NaiveDateTime::checked_add_days(Days::new(n)).unwrap()
CheckedAddDays(dt, n) ==
    LET c == CivilFromDays(DaysFromCivil(dt.y, dt.m, dt.d) + n)
    IN  [y |-> c.y, m |-> c.m, d |-> c.d, secs |-> dt.secs]

\* DateTime::checked_add_months(Months::new(n)).unwrap(): the month moves
\* (with the year), the day is clamped to the last day of the target month.
CheckedAddMonths(dt, n) ==
    LET mi == (dt.y * 12 + (dt.m - 1)) + n
        ty == mi \div 12
        tm == (mi % 12) + 1
        dim == DaysInMonth(ty, tm)
    IN  [y |-> ty, m |-> tm, d |-> (IF dt.d > dim THEN dim ELSE dt.d),
         secs |-> dt.secs]

\* Datelike::with_day(day).unwrap()
WithDay(dt, day) == [dt EXCEPT !.d = day]

\* A shift of a naive date-time by a number of seconds (the addition and
\* subtraction of a FixedOffset).
AddSeconds(dt, s) == FromTimestamp(Timestamp(dt) + s)

-----------------------------------------------------------------------------
(* Pattern parsing and formatting (chrono::format).  A pattern is the      *)
(* sequence of items StrftimeItems reads from the pattern string: the      *)
(* numeric items %Y %m %d %H %M %S, the white-space item " ", literal      *)
(* characters, and "%Q" for a specifier chrono does not know (Item::Error).*)

DigitChars == <<"0", "1", "2", "3", "4", "5", "6", "7", "8", "9">>

IsDigit(c) == \E i \in 1..10 : DigitChars[i] = c

DigitVal(c) == (CHOOSE i \in 1..10 : DigitChars[i] = c) - 1

NumericItems == {"%Y", "%m", "%d", "%H", "%M", "%S"}

\* The maximal digit count of a numeric item (parse.rs: the width of the
\* item; every numeric item takes at least one digit).
ItemWidth(item) == IF item = "%Y" THEN 4 ELSE 2

\* The range Parsed::set_year/.../set_second accept.
ItemInRange(item, v) ==
    CASE item = "%Y" -> TRUE
      [] item = "%m" -> v \in 1..12
      [] item = "%d" -> v \in 1..31
      [] item = "%H" -> v \in 0..23
      [] item = "%M" -> v \in 0..59
      [] item = "%S" -> v \in 0..60

\* The value of a sequence of digit characters.
RECURSIVE DigitsValue(_)
DigitsValue(ds) ==
    IF ds = <<>> THEN 0
    ELSE DigitsValue(SubSeq(ds, 1, Len(ds) - 1)) * 10 + DigitVal(ds[Len(ds)])

\* str::trim_start()
RECURSIVE TrimStart(_)
TrimStart(s) ==
    IF s # <<>> /\ Head(s) = " " THEN TrimStart(Tail(s)) ELSE s

\* scan::number(s, min, max): the leading digits of s, at most max of them;
\* TooShort when s is shorter than min, Invalid when fewer than min digits
\* lead it.
ScanNumber(s, min, max) ==
    LET lim == IF Len(s) < max THEN Len(s) ELSE max
        k   == Cardinality({i \in 1..lim : \A j \in 1..i : IsDigit(s[j])})
    IN  IF Len(s) < min THEN [ok |-> FALSE, err |-> "TooShort", n |-> 0, rest |-> s]
        ELSE IF k < min THEN [ok |-> FALSE, err |-> "Invalid", n |-> 0, rest |-> s]
        ELSE [ok |-> TRUE, err |-> "", n |-> DigitsValue(SubSeq(s, 1, k)),
              rest |-> SubSeq(s, k + 1, Len(s))]

\* Parsed::default(): no field set.
Unset == -1

EmptyParsed ==
    [Y |-> Unset, m |-> Unset, d |-> Unset, H |-> Unset, M |-> Unset, S |-> Unset]

NoDateTime == [y |-> 0, m |-> 0, d |-> 0, secs |-> 0]

ParseErr(kind) == [ok |-> FALSE, err |-> kind, value |-> NoDateTime]

\* Parsed::to_naive_datetime_with_offset(0): the date needs year, month and
\* day and must exist; the time needs hour and minute, the second defaults
\* to 0 and the leap second 60 is kept as second 59.
ToNaiveDateTime(p) ==
    IF p.Y = Unset \/ p.m = Unset \/ p.d = Unset THEN ParseErr("NotEnough")
    ELSE IF ~ValidDate(p.Y, p.m, p.d) THEN ParseErr("OutOfRange")
    ELSE IF p.H = Unset \/ p.M = Unset THEN ParseErr("NotEnough")
    ELSE LET sec == IF p.S = Unset THEN 0 ELSE IF p.S = 60 THEN 59 ELSE p.S
         IN  [ok |-> TRUE, err |-> "",
              value |-> NaiveDateTime(p.Y, p.m, p.d, p.H, p.M, sec)]

\* format::parse: the items consume the text from the left; what is left
\* over after the last item is an error.
RECURSIVE ParseItems(_, _, _)
ParseItems(s, items, p) ==
    IF items = <<>> THEN
        (IF s # <<>> THEN ParseErr("TooLong") ELSE ToNaiveDateTime(p))
    ELSE LET item == Head(items) IN
        IF item \in NumericItems THEN
            LET r == ScanNumber(TrimStart(s), 1, ItemWidth(item)) IN
            IF ~r.ok THEN ParseErr(r.err)
            ELSE IF ~ItemInRange(item, r.n) THEN ParseErr("OutOfRange")
            ELSE ParseItems(r.rest, Tail(items),
                     CASE item = "%Y" -> [p EXCEPT !.Y = r.n]
                       [] item = "%m" -> [p EXCEPT !.m = r.n]
                       [] item = "%d" -> [p EXCEPT !.d = r.n]
                       [] item = "%H" -> [p EXCEPT !.H = r.n]
                       [] item = "%M" -> [p EXCEPT !.M = r.n]
                       [] item = "%S" -> [p EXCEPT !.S = r.n])
        ELSE IF item = "%Q" THEN ParseErr("BadFormat")
        ELSE IF item = " " THEN ParseItems(TrimStart(s), Tail(items), p)
        ELSE IF s = <<>> THEN ParseErr("TooShort")
        ELSE IF Head(s) # item THEN ParseErr("Invalid")
        ELSE ParseItems(Tail(s), Tail(items), p)

\* NaiveDateTime::parse_from_str(datetime, pattern)
ParseFromStr(text, pattern) == ParseItems(text, pattern, EmptyParsed)

\* A number written with at least w digits, zero padded.
RECURSIVE PadNumber(_, _)
PadNumber(n, w) ==
    IF w <= 1 /\ n < 10 THEN <<DigitChars[n + 1]>>
    ELSE Append(PadNumber(n \div 10, w - 1), DigitChars[(n % 10) + 1])

\* format(pattern).to_string(): the text of a date-time under a pattern.
RECURSIVE FormatItems(_, _)
FormatItems(dt, items) ==
    IF items = <<>> THEN <<>>
    ELSE LET item == Head(items)
             piece ==
                 CASE item = "%Y" -> PadNumber(dt.y, 4)
                   [] item = "%m" -> PadNumber(dt.m, 2)
                   [] item = "%d" -> PadNumber(dt.d, 2)
                   [] item = "%H" -> PadNumber(dt.secs \div 3600, 2)
                   [] item = "%M" -> PadNumber((dt.secs % 3600) \div 60, 2)
                   [] item = "%S" -> PadNumber(dt.secs % 60, 2)
                   [] OTHER -> <<item>>
         IN  piece \o FormatItems(dt, Tail(items))

\* The patterns of the documentation: "%Y%m%d%H%M%S" and "%Y-%m-%d %H:%M:%S".
CompactPattern == <<"%Y", "%m", "%d", "%H", "%M", "%S">>

DashedPattern ==
    <<"%Y", "-", "%m", "-", "%d", " ", "%H", ":", "%M", ":", "%S">>

-----------------------------------------------------------------------------
(* Time zones (chrono_tz::Tz).  Each zone is the sequence of its timespans *)
(* between HorizonStart and HorizonEnd, as the IANA database gives them    *)
(* for 2024: the UTC instant a span starts at, the base UTC offset and the *)
(* daylight-saving offset in seconds.                                      *)

HorizonStart == Timestamp(NaiveDateTime(2023, 12, 1, 0, 0, 0))

HorizonEnd == Timestamp(NaiveDateTime(2025, 2, 1, 0, 0, 0))

Zones == {"Asia/Seoul", "America/New_York", "Europe/London"}

TzSpans(tz) ==
    CASE tz = "Asia/Seoul" ->
            << [from |-> HorizonStart, utc |-> 32400, dst |-> 0] >>
      [] tz = "America/New_York" ->
            << [from |-> HorizonStart, utc |-> -18000, dst |-> 0],
               [from |-> Timestamp(NaiveDateTime(2024, 3, 10, 7, 0, 0)),
                utc |-> -18000, dst |-> 3600],
               [from |-> Timestamp(NaiveDateTime(2024, 11, 3, 6, 0, 0)),
                utc |-> -18000, dst |-> 0] >>
      [] tz = "Europe/London" ->
            << [from |-> HorizonStart, utc |-> 0, dst |-> 0],
               [from |-> Timestamp(NaiveDateTime(2024, 3, 31, 1, 0, 0)),
                utc |-> 0, dst |-> 3600],
               [from |-> Timestamp(NaiveDateTime(2024, 10, 27, 1, 0, 0)),
                utc |-> 0, dst |-> 0] >>

\* The UTC instant span i of a zone ends at.
SpanEnd(spans, i) == IF i < Len(spans) THEN spans[i + 1].from ELSE HorizonEnd

\* TzOffset::fix(): the total offset from UTC, in seconds.
Fix(o) == o.utc + o.dst

\* Tz::offset_from_utc_datetime(utc): the offset of the span the UTC instant
\* lies in.
OffsetFromUtcDatetime(tz, utc) ==
    LET spans == TzSpans(tz)
        ts == Timestamp(utc)
        i == CHOOSE j \in 1..Len(spans) :
                 /\ (j = 1 \/ spans[j].from <= ts)
                 /\ (j = Len(spans) \/ ts < SpanEnd(spans, j))
    IN  spans[i]

\* Tz::offset_from_local_datetime(local): the spans whose local wall-clock
\* range holds the value: none for a skipped time (LocalResult::None), one
\* (Single), or two for a repeated time (Ambiguous(earlier, later)).
OffsetFromLocalDatetime(tz, local) ==
    LET spans == TzSpans(tz)
        ts == Timestamp(local)
        hits == {j \in 1..Len(spans) :
                    /\ (j = 1 \/ spans[j].from + Fix(spans[j]) <= ts)
                    /\ (j = Len(spans) \/ ts < SpanEnd(spans, j) + Fix(spans[j]))}
        lo == CHOOSE j \in hits : \A k \in hits : j <= k
        hi == CHOOSE j \in hits : \A k \in hits : k <= j
    IN  IF hits = {} THEN [kind |-> "None", off |-> spans[1], later |-> spans[1]]
        ELSE IF lo = hi THEN [kind |-> "Single", off |-> spans[lo], later |-> spans[lo]]
        ELSE [kind |-> "Ambiguous", off |-> spans[lo], later |-> spans[hi]]

-----------------------------------------------------------------------------
(* The four functions of src/date_util.rs.  A result is a record: kind is  *)
(* "Ok", "Err" or "Panic" (an unwrap() of a missing value aborts the       *)
(* call), printed is what the call wrote to the standard output, lookup    *)
(* is the offset lookup the call made ("utc", "local" or "none").          *)

NoMessage == <<>>

\* format!("{err:#?}") of a chrono ParseError.
DebugFormat(err) == <<"ParseError", err>>

\* println!("parse_from_str error => {:#?}", err)
PrintLine(err) == <<"parse_from_str error => ", DebugFormat(err)>>

\* crate::error::InvalidArgumentError::new(message): the error keeps the
\* message it is given.
InvalidArgumentErrorNew(message) ==
    [error |-> "InvalidArgumentError", message |-> message]

Ok(v, lookup) ==
    [kind |-> "Ok", value |-> v, value2 |-> NoDateTime, day |-> 0,
     error |-> "", message |-> NoMessage, lookup |-> lookup, printed |-> <<>>]

Err(e, printed) ==
    [kind |-> "Err", value |-> NoDateTime, value2 |-> NoDateTime, day |-> 0,
     error |-> e.error, message |-> e.message, lookup |-> "none",
     printed |-> printed]

Panic(lookup) ==
    [kind |-> "Panic", value |-> NoDateTime, value2 |-> NoDateTime, day |-> 0,
     error |-> "", message |-> NoMessage, lookup |-> lookup, printed |-> <<>>]

\* A mutant of local_datetime_to_utc: a text that does not parse is taken
\* as the default date-time instead of being refused.
local_datetime_to_utc_lenient(datetime, pattern, timezone) ==
    LET parsed == ParseFromStr(datetime, pattern)
        naive_datetime == IF parsed.ok THEN parsed.value
                          ELSE NaiveDateTime(1970, 1, 1, 0, 0, 0)
        offset == OffsetFromUtcDatetime(timezone, naive_datetime)
    IN  Ok(AddSeconds(naive_datetime, 0 - Fix(offset)), "utc")

local_datetime_to_utc(datetime, pattern, timezone) ==
    LET naive_datetime == ParseFromStr(datetime, pattern) IN
    IF ~naive_datetime.ok THEN
        Err(InvalidArgumentErrorNew(DebugFormat(naive_datetime.err)),
            <<PrintLine(naive_datetime.err)>>)
    ELSE
        LET offset == OffsetFromUtcDatetime(timezone, naive_datetime.value)
            fixed == Fix(offset)
            \* fixed.from_local_datetime(naive).unwrap().naive_utc(): a fixed
            \* offset maps every local time to a single instant.
        IN  Ok(AddSeconds(naive_datetime.value, 0 - fixed), "utc")

utc_datetime_to_local(datetime, pattern, timezone) ==
    LET utc_datetime == ParseFromStr(datetime, pattern) IN
    IF ~utc_datetime.ok THEN
        Err(InvalidArgumentErrorNew(DebugFormat(utc_datetime.err)),
            <<PrintLine(utc_datetime.err)>>)
    ELSE
        \* offset_from_local_datetime(&utc_datetime).unwrap(): LocalResult's
        \* unwrap panics on None and on Ambiguous.
        LET offset == OffsetFromLocalDatetime(timezone, utc_datetime.value) IN
        IF offset.kind # "Single" THEN Panic("local")
        ELSE Ok(AddSeconds(utc_datetime.value, Fix(offset.off)), "local")

\* DateTime<T>::timestamp(): the instant of a zoned date-time, whose local
\* date-time is datetime.local and whose offset from UTC is datetime.off.
ZonedTimestamp(datetime) == Timestamp(datetime.local) - datetime.off

get_latest_day(datetime) ==
    LET dummy0 == FromTimestamp(ZonedTimestamp(datetime))
        dummy1 == CheckedAddMonths(dummy0, 1)
        dummy2 == WithDay(dummy1, 1)
        dummy3 == CheckedSubDays(dummy2, 1)
    IN  dummy3.d

\* A mutant of get_week_start_end: the days are counted from Sunday.
get_week_start_end_sunday(datetime) ==
    LET days_since == (DaysSinceMonday(datetime) + 1) % 7
        monday == CheckedSubDays(datetime, days_since)
        sunday == CheckedAddDays(monday, 6)
    IN  <<monday, sunday>>

get_week_start_end(datetime) ==
    LET days_since == DaysSinceMonday(datetime)
        monday == CheckedSubDays(datetime, days_since)
        sunday == CheckedAddDays(monday, 6)
    IN  <<monday, sunday>>

-----------------------------------------------------------------------------
(* The inputs a caller draws.                                              *)

\* Naive date-times of 2024: the examples of the documentation and tests,
\* day, month and year rollovers, and values around the daylight-saving
\* transitions of America/New_York (2024-03-10, 2024-11-03) and
\* Europe/London (2024-03-31, 2024-10-27).
NaiveInputs ==
    { NaiveDateTime(2024, 11, 22, 10, 29, 48), NaiveDateTime(2024, 11, 22, 9, 54, 45),
      NaiveDateTime(2024, 9, 11, 23, 47, 58),  NaiveDateTime(2024, 11, 22, 22, 54, 45),
      NaiveDateTime(2024, 1, 1, 3, 0, 0),      NaiveDateTime(2024, 12, 31, 20, 0, 0),
      NaiveDateTime(2024, 2, 29, 18, 0, 0),    NaiveDateTime(2024, 3, 1, 5, 0, 0),
      NaiveDateTime(2024, 7, 1, 12, 0, 0),
      NaiveDateTime(2024, 3, 10, 1, 30, 0),    NaiveDateTime(2024, 3, 10, 2, 30, 0),
      NaiveDateTime(2024, 3, 10, 3, 30, 0),    NaiveDateTime(2024, 3, 10, 5, 0, 0),
      NaiveDateTime(2024, 3, 10, 7, 30, 0),    NaiveDateTime(2024, 3, 10, 12, 0, 0),
      NaiveDateTime(2024, 11, 3, 0, 30, 0),    NaiveDateTime(2024, 11, 3, 1, 30, 0),
      NaiveDateTime(2024, 11, 3, 2, 30, 0),    NaiveDateTime(2024, 11, 3, 5, 30, 0),
      NaiveDateTime(2024, 11, 3, 6, 30, 0),    NaiveDateTime(2024, 11, 3, 11, 0, 0),
      NaiveDateTime(2024, 3, 31, 0, 30, 0),    NaiveDateTime(2024, 3, 31, 1, 30, 0),
      NaiveDateTime(2024, 3, 31, 2, 30, 0),    NaiveDateTime(2024, 10, 27, 0, 30, 0),
      NaiveDateTime(2024, 10, 27, 1, 0, 0),    NaiveDateTime(2024, 10, 27, 1, 30, 0),
      NaiveDateTime(2024, 10, 27, 2, 30, 0) }

Patterns ==
    { CompactPattern, DashedPattern,
      <<"%Y", "%m", "%d">>,                        \* no time of day
      <<"%Y", "%m", "%d", "%Q", "%H", "%M", "%S">> \* an unknown specifier
    }

\* Six numbers written as a compact text, whether or not they make a date.
RawText(y, m, d, H, M, S) ==
    PadNumber(y, 4) \o PadNumber(m, 2) \o PadNumber(d, 2)
        \o PadNumber(H, 2) \o PadNumber(M, 2) \o PadNumber(S, 2)

\* Texts with something wrong under the compact pattern: a digit short
\* (chrono still reads it, the last field taking one digit), two digits
\* short, a digit too many, month 13, 30 February, hour 25, a letter, the
\* empty text.
MalformedTexts ==
    { SubSeq(RawText(2024, 11, 22, 10, 29, 48), 1, 13),
      SubSeq(RawText(2024, 11, 22, 10, 29, 48), 1, 12),
      Append(RawText(2024, 11, 22, 10, 29, 48), "0"),
      RawText(2024, 13, 22, 10, 29, 48),
      RawText(2024, 2, 30, 10, 29, 48),
      RawText(2024, 11, 22, 25, 29, 48),
      <<"2", "0", "2", "4", "x">> \o SubSeq(RawText(2024, 11, 22, 10, 29, 48), 6, 14),
      <<>> }

Texts ==
    {FormatItems(n, CompactPattern) : n \in NaiveInputs}
        \cup {FormatItems(n, DashedPattern) : n \in NaiveInputs}
        \cup MalformedTexts

Years == 2023..MaxYear

\* Zoned date-times for get_latest_day: a local date-time and its offset
\* from UTC in seconds (Utc, and fixed offsets west and east of it).
ZonedInputs ==
    { [local |-> [y |-> c[1], m |-> c[2], d |-> c[3], secs |-> c[4]], off |-> c[5]] :
        c \in { x \in Years \X (1..12) \X {1, 11, 28, 29, 30, 31}
                        \X {0, 48420, 84600} \X {-18000, 0, 32400} :
                    ValidDate(x[1], x[2], x[3]) } }

\* Naive date-times for get_week_start_end: every day of the years, at
\* midnight and at 13:27:05, and the date of the documented example.
WeekInputs ==
    { [y |-> c[1], m |-> c[2], d |-> c[3], secs |-> c[4]] :
        c \in { x \in Years \X (1..12) \X (1..31) \X {0, 48425} :
                    ValidDate(x[1], x[2], x[3]) } }
        \cup { NaiveDateTime(1978, 6, 22, 0, 0, 0) }

-----------------------------------------------------------------------------
(* The caller: one call of one of the four functions, and then the result  *)
(* of a conversion written out under the same pattern and converted back   *)
(* with the same zone, up to MaxChain times.  A panic ends the behaviour.  *)

NoZoned == [local |-> NoDateTime, off |-> 0]

NoCall ==
    [fn |-> "none", text |-> <<>>, pattern |-> <<>>, tz |-> "",
     zoned |-> NoZoned, naive |-> NoDateTime]

NoRet ==
    [kind |-> "none", value |-> NoDateTime, value2 |-> NoDateTime, day |-> 0,
     error |-> "", message |-> NoMessage, lookup |-> "none"]

NoChain == [call |-> NoCall, ret |-> NoRet]

\* What the caller keeps of a function's result.
Returned(r) ==
    [kind |-> r.kind, value |-> r.value, value2 |-> r.value2, day |-> r.day,
     error |-> r.error, message |-> r.message, lookup |-> r.lookup]

Init ==
    /\ pc = "ready"
    /\ call = NoCall
    /\ ret = NoRet
    /\ chained = NoChain
    /\ stdout = <<>>
    /\ depth = 0

\* The state after a conversion function returned r (or panicked).
Convert(fn, text, pattern, tz, r) ==
    /\ call' = [NoCall EXCEPT !.fn = fn, !.text = text, !.pattern = pattern,
                              !.tz = tz]
    /\ ret' = Returned(r)
    /\ stdout' = stdout \o r.printed
    /\ pc' = IF r.kind = "Panic" THEN "aborted" ELSE "returned"

CallLocalDatetimeToUtc ==
    /\ pc = "ready"
    /\ \E text \in Texts, pattern \in Patterns, tz \in Zones :
           Convert("local_datetime_to_utc", text, pattern, tz,
                   local_datetime_to_utc(text, pattern, tz))
    /\ UNCHANGED <<chained, depth>>

CallUtcDatetimeToLocal ==
    /\ pc = "ready"
    /\ \E text \in Texts, pattern \in Patterns, tz \in Zones :
           Convert("utc_datetime_to_local", text, pattern, tz,
                   utc_datetime_to_local(text, pattern, tz))
    /\ UNCHANGED <<chained, depth>>

\* result.format(pattern).to_string() handed to utc_datetime_to_local.
ChainUtcDatetimeToLocal ==
    /\ pc = "returned"
    /\ depth < MaxChain
    /\ call.fn = "local_datetime_to_utc"
    /\ ret.kind = "Ok"
    /\ LET text == FormatItems(ret.value, call.pattern) IN
           Convert("utc_datetime_to_local", text, call.pattern, call.tz,
                   utc_datetime_to_local(text, call.pattern, call.tz))
    /\ chained' = [call |-> call, ret |-> ret]
    /\ depth' = depth + 1

\* result.format(pattern).to_string() handed to local_datetime_to_utc.
ChainLocalDatetimeToUtc ==
    /\ pc = "returned"
    /\ depth < MaxChain
    /\ call.fn = "utc_datetime_to_local"
    /\ ret.kind = "Ok"
    /\ LET text == FormatItems(ret.value, call.pattern) IN
           Convert("local_datetime_to_utc", text, call.pattern, call.tz,
                   local_datetime_to_utc(text, call.pattern, call.tz))
    /\ chained' = [call |-> call, ret |-> ret]
    /\ depth' = depth + 1

CallGetLatestDay ==
    /\ pc = "ready"
    /\ \E datetime \in ZonedInputs :
           /\ call' = [NoCall EXCEPT !.fn = "get_latest_day", !.zoned = datetime]
           /\ ret' = [NoRet EXCEPT !.kind = "Ok", !.day = get_latest_day(datetime)]
    /\ pc' = "returned"
    /\ UNCHANGED <<chained, stdout, depth>>

CallGetWeekStartEnd ==
    /\ pc = "ready"
    /\ \E datetime \in WeekInputs :
           /\ call' = [NoCall EXCEPT !.fn = "get_week_start_end", !.naive = datetime]
           /\ ret' = [NoRet EXCEPT !.kind = "Ok",
                                   !.value = get_week_start_end(datetime)[1],
                                   !.value2 = get_week_start_end(datetime)[2]]
    /\ pc' = "returned"
    /\ UNCHANGED <<chained, stdout, depth>>

Next ==
    \/ CallLocalDatetimeToUtc
    \/ CallUtcDatetimeToLocal
    \/ ChainUtcDatetimeToLocal
    \/ ChainLocalDatetimeToUtc
    \/ CallGetLatestDay
    \/ CallGetWeekStartEnd

Spec == Init /\ [][Next]_vars

-----------------------------------------------------------------------------
(* Properties.                                                             *)

\* The last call was a conversion call.
IsConversion == call.fn \in {"local_datetime_to_utc", "utc_datetime_to_local"}

\* The naive date-time the last call's text parses to.
Parsed == ParseFromStr(call.text, call.pattern)

\* C1: whenever the text parses to n and n, read as local wall-clock time
\* in the zone, has one offset off (the local-interpretation lookup),
\* local_datetime_to_utc returns n - off.
C1_LocalInterpretation ==
    (call.fn = "local_datetime_to_utc" /\ Parsed.ok) =>
        LET lr == OffsetFromLocalDatetime(call.tz, Parsed.value) IN
        lr.kind = "Single" =>
            /\ ret.kind = "Ok"
            /\ ret.value = AddSeconds(Parsed.value, 0 - Fix(lr.off))

\* C2: whenever the text parses to u, utc_datetime_to_local returns
\* u + off, off being the offset of the zone at the UTC instant u (the
\* UTC-interpretation lookup).
C2_UtcInterpretation ==
    (call.fn = "utc_datetime_to_local" /\ Parsed.ok) =>
        /\ ret.kind = "Ok"
        /\ ret.value = AddSeconds(Parsed.value,
                           Fix(OffsetFromUtcDatetime(call.tz, Parsed.value)))

\* C3: a conversion call whose text parses returns a date-time and never
\* aborts, whatever the zone and the wall-clock value.
C3_NeverAborts ==
    (IsConversion /\ Parsed.ok) => (pc # "aborted" /\ ret.kind = "Ok")

\* C4: a conversion call whose text does not parse under the pattern
\* returns the invalid-argument error carrying the parse diagnostic, makes
\* no offset lookup and returns no date-time.
C4_ParseFailure ==
    (IsConversion /\ ~Parsed.ok) =>
        /\ pc = "returned"
        /\ ret.kind = "Err"
        /\ ret.error = "InvalidArgumentError"
        /\ ret.message = DebugFormat(Parsed.err)
        /\ ret.lookup = "none"
        /\ ret.value = NoDateTime

\* C4 witness: local_datetime_to_utc refused a text that is two digits
\* short.
C4_Witness ==
    /\ call.fn = "local_datetime_to_utc"
    /\ call.pattern = CompactPattern
    /\ Len(call.text) = 12
    /\ ret.kind = "Err"
    /\ ret.message = DebugFormat("TooShort")

\* C5: get_latest_day returns the length of the month of the input's own
\* calendar date, whatever its time of day and offset.
C5_OwnCalendarMonth ==
    call.fn = "get_latest_day" =>
        ret.day = DaysInMonth(call.zoned.local.y, call.zoned.local.m)

\* C6: get_latest_day returns the day of month of (the first day of the
\* month following the input's month, minus one day): 28 or 29 for
\* February, 31 for December, 30 or 31 otherwise.
C6_FollowingMonthMinusOneDay ==
    call.fn = "get_latest_day" =>
        LET d == call.zoned.local
            first == DaysFromCivil(IF d.m = 12 THEN d.y + 1 ELSE d.y,
                                   IF d.m = 12 THEN 1 ELSE d.m + 1, 1)
        IN  /\ ret.day = CivilFromDays(first - 1).d
            /\ ret.day \in 28..31
            /\ (d.m = 2 => ret.day = IF IsLeapYear(d.y) THEN 29 ELSE 28)
            /\ (d.m = 12 => ret.day = 31)

\* The weekday of a date by Zeller's congruence, as days since Monday.
ZellerDaysSinceMonday(y, m, d) ==
    LET mm == IF m < 3 THEN m + 12 ELSE m
        yy == IF m < 3 THEN y - 1 ELSE y
        K  == yy % 100
        J  == yy \div 100
        h  == (d + (13 * (mm + 1)) \div 5 + K + K \div 4 + J \div 4 + 5 * J) % 7
    IN  (h + 5) % 7

\* C7: get_week_start_end returns (monday, sunday) with monday = d minus
\* the days from Monday to d's weekday and sunday = monday plus 6 days;
\* monday is a Monday, sunday a Sunday, monday <= d <= sunday, and both
\* carry d's time of day.
C7_WeekStartEnd ==
    call.fn = "get_week_start_end" =>
        LET d == call.naive
            k == ZellerDaysSinceMonday(d.y, d.m, d.d)
            monday == ret.value
            sunday == ret.value2
        IN  /\ ValidDate(monday.y, monday.m, monday.d)
            /\ ValidDate(sunday.y, sunday.m, sunday.d)
            /\ DaysFromCivil(monday.y, monday.m, monday.d)
                   = DaysFromCivil(d.y, d.m, d.d) - k
            /\ DaysFromCivil(sunday.y, sunday.m, sunday.d)
                   = DaysFromCivil(monday.y, monday.m, monday.d) + 6
            /\ ZellerDaysSinceMonday(monday.y, monday.m, monday.d) = 0
            /\ ZellerDaysSinceMonday(sunday.y, sunday.m, sunday.d) = 6
            /\ monday.secs = d.secs
            /\ sunday.secs = d.secs
            /\ Timestamp(monday) <= Timestamp(d)
            /\ Timestamp(d) <= Timestamp(sunday)
            /\ (d = NaiveDateTime(1978, 6, 22, 0, 0, 0) =>
                    /\ monday = NaiveDateTime(1978, 6, 19, 0, 0, 0)
                    /\ sunday = NaiveDateTime(1978, 6, 25, 0, 0, 0))

\* C7 witness: a week that crosses the year boundary, with a time of day:
\* Wednesday 2025-01-01 13:27:05 lies between Monday 2024-12-30 and Sunday
\* 2025-01-05.
C7_Witness ==
    /\ call.fn = "get_week_start_end"
    /\ call.naive = [y |-> 2025, m |-> 1, d |-> 1, secs |-> 48425]
    /\ ret.value = [y |-> 2024, m |-> 12, d |-> 30, secs |-> 48425]
    /\ ret.value2 = [y |-> 2025, m |-> 1, d |-> 5, secs |-> 48425]

\* C8: adding the zone's offset in effect at the instant r that
\* local_datetime_to_utc returned back to r gives the parsed local time n
\* (stated for the n that exist as wall-clock time in the zone: a skipped
\* time is the local time of no instant).
C8_AddBackOffset ==
    (/\ call.fn = "local_datetime_to_utc"
     /\ Parsed.ok
     /\ OffsetFromLocalDatetime(call.tz, Parsed.value).kind # "None") =>
        /\ ret.kind = "Ok"
        /\ AddSeconds(ret.value, Fix(OffsetFromUtcDatetime(call.tz, ret.value)))
               = Parsed.value

\* Half an offset's magnitude in half hours: the window within one offset
\* magnitude of a value is sampled every half hour, both ends included
\* (the values with a given single offset form an interval, so the samples
\* decide the whole window).
HalfHours(off) == (IF off < 0 THEN 0 - off ELSE off) \div 1800

\* The zone's offset is one constant value at every UTC instant within one
\* offset magnitude of the UTC value u.
UtcOffsetConstantNear(tz, u) ==
    LET off == Fix(OffsetFromUtcDatetime(tz, u)) IN
    \A k \in (0 - HalfHours(off))..HalfHours(off) :
        Fix(OffsetFromUtcDatetime(tz, AddSeconds(u, k * 1800))) = off

\* The zone's offset is one constant value at every local wall-clock time
\* within one offset magnitude of the local value n.
LocalOffsetConstantNear(tz, n) ==
    LET here == OffsetFromLocalDatetime(tz, n)
        off == Fix(here.off)
    IN  /\ here.kind = "Single"
        /\ \A k \in (0 - HalfHours(off))..HalfHours(off) :
               LET lr == OffsetFromLocalDatetime(tz, AddSeconds(n, k * 1800))
               IN  lr.kind = "Single" /\ Fix(lr.off) = off

\* No transition near the value a conversion function is given: a local
\* value for local_datetime_to_utc, a UTC value for utc_datetime_to_local.
AwayFromTransitions(fn, tz, n) ==
    IF fn = "local_datetime_to_utc" THEN LocalOffsetConstantNear(tz, n)
    ELSE UtcOffsetConstantNear(tz, n)

\* C9: away from transitions the round trip is exact in both directions:
\* when the zone's offset is constant within one offset magnitude of the
\* parsed value n, the conversion of n returns a date-time, and that result
\* written with the same pattern and converted back with the same zone is
\* exactly n.
C9_RoundTripAwayFromTransitions ==
    /\ (IsConversion /\ Parsed.ok
            /\ AwayFromTransitions(call.fn, call.tz, Parsed.value))
           => ret.kind = "Ok"
    /\ chained.call.fn \in {"local_datetime_to_utc", "utc_datetime_to_local"} =>
           LET n == ParseFromStr(chained.call.text, chained.call.pattern).value IN
           AwayFromTransitions(chained.call.fn, chained.call.tz, n) =>
               /\ ret.kind = "Ok"
               /\ ret.value = n

\* C10: no call, successful or failed, writes anything to an output stream.
C10_NoOutput == stdout = <<>>

====
